---- MODULE Spec2Model ----
(***************************************************************************)
(* The two multi-scale graph-convolution layers of layers.py,              *)
(* SparseNGCNLayer and DenseNGCNLayer, as a state machine: a layer object  *)
(* is constructed, the caller holds a normalized adjacency matrix and a    *)
(* feature matrix, forward() is called on them, the external optimizer     *)
(* rewrites weight_matrix and bias, and train()/eval() flip the training   *)
(* flag.                                                                   *)
(*                                                                         *)
(* Tensors hold integers instead of floats: sums and products are exact,   *)
(* so the algebra of the layers is checked and floating-point rounding is  *)
(* not.  dropout_rate is held in percent (50 is p = 0.5).                  *)
(* A sparse matrix is the dictionary the code receives:                    *)
(*   [indices |-> <<rows, cols>>, values |-> vals]                         *)
(* with 0-based indices, as in the 2 x nnz index tensor of torch_sparse.   *)
(* A dense matrix is a sequence of rows, each a sequence of entries.       *)
(***************************************************************************)
EXTENDS Integers, Sequences, FiniteSets, TLC

VARIABLES
    layer,                        \* <<>> before construction, else <<the layer object>>
    normalized_adjacency_matrix,  \* the caller's adjacency dictionary, as it is now
    features,                     \* the caller's feature matrix (sparse dictionary or dense), as it is now
    call,                         \* <<>> between calls, else <<what forward() was handed>>
    result                        \* <<>> between calls, else <<what forward() left>>

vars == <<layer, normalized_adjacency_matrix, features, call, result>>

----------------------------------------------------------------------------
(* Bounds of the model. *)

MaxNodes == 2      \* row / column indices of the inputs range over 0..MaxNodes-1
MaxIn == 2         \* in_channels ranges over 1..MaxIn
MaxOut == 1        \* out_channels ranges over 1..MaxOut
MaxNnz == 2        \* stored entries of a sparse input
MaxIter == 3       \* iterations ranges over 0..MaxIter

Kinds == {"sparse", "dense"}
Iterations == 0..MaxIter
DropoutRates == {0, 50, 150}
ParamVals == {-1, 1}
BiasVals == {0, 1}
FeatVals == {1}
DenseVals == {0, 1}
AdjVals == {-1, 1}
MaskBits == MaxNodes * MaxOut   \* the most elements base_features has when dropout runs
Seeds == 0..(2^MaskBits - 1)

----------------------------------------------------------------------------
(* Dense matrices. *)

Rows(M) == Len(M)
Cols(M) == Len(M[1])

Matrices(r, c, S) == [1..r -> [1..c -> S]]

Zeros(r, c) == [i \in 1..r |-> [j \in 1..c |-> 0]]

RECURSIVE SumTo(_, _)
SumTo(f, n) == IF n = 0 THEN 0 ELSE f[n] + SumTo(f, n - 1)

(* torch.mm(A, B): the dense product; the caller checks Cols(A) = Rows(B). *)
mm(A, B) ==
    [i \in 1..Rows(A) |->
        [j \in 1..Cols(B) |->
            SumTo([k \in 1..Cols(A) |-> A[i][k] * B[k][j]], Cols(A))]]

(* What a call leaves: a value, or the exception it raised and no value. *)
Ok(v) == [error |-> "", value |-> v]
Raise(e) == [error |-> e, value |-> <<>>]

----------------------------------------------------------------------------
(* torch_sparse.spmm(index, value, m, n, matrix), imported at line 2:      *)
(*     assert n == matrix.size(-2)                                         *)
(*     row, col = index[0], index[1]                                       *)
(*     out = matrix.index_select(-2, col)                                  *)
(*     out = out * value.unsqueeze(-1)                                     *)
(*     out = scatter_add(out, row, dim=-2, dim_size=m)                     *)

(* A length-1 tensor broadcasts against a longer one. *)
At(s, k) == IF Len(s) = 1 THEN s[1] ELSE s[k]

RECURSIVE scatter_add(_, _, _, _, _, _)
scatter_add(out, row, col, value, matrix, k) ==
    IF k = 0 THEN out
    ELSE LET prev == scatter_add(out, row, col, value, matrix, k - 1)
             r == At(row, k) + 1
             c == At(col, k) + 1
         IN  [prev EXCEPT ![r] =
                 [j \in 1..Cols(matrix) |-> @[j] + At(value, k) * matrix[c][j]]]

spmm(index, value, m, n, matrix) ==
    LET row == index[1]
        col == index[2]
        Li == Len(row)
        Lv == Len(value)
        L == IF Li = 1 THEN Lv ELSE Li
    IN  IF n # Rows(matrix) THEN Raise("AssertionError")
        ELSE IF \E k \in 1..Li : col[k] < 0 \/ col[k] >= Rows(matrix)
            THEN Raise("IndexError")
        ELSE IF Li # Lv /\ Li # 1 /\ Lv # 1 THEN Raise("RuntimeError")
        ELSE IF L > 0 /\ \E k \in 1..Li : row[k] < 0 \/ row[k] >= m
            THEN Raise("RuntimeError")
        ELSE Ok(scatter_add(Zeros(m, Cols(matrix)), row, col, value, matrix, L))

----------------------------------------------------------------------------
(* The pieces of forward(). *)

RECURSIVE MaxOf(_, _)
MaxOf(s, n) == IF n = 1 THEN s[1]
               ELSE LET m == MaxOf(s, n - 1) IN IF s[n] > m THEN s[n] ELSE m

(* Lines 44-45: torch.max(features["indices"], dim=1) + 1; torch.max       *)
(* raises on a dimension of size 0.                                        *)
feature_count(indices) ==
    IF Len(indices[1]) = 0 THEN Raise("IndexError")
    ELSE Ok(<<MaxOf(indices[1], Len(indices[1])) + 1,
              MaxOf(indices[2], Len(indices[2])) + 1>>)

(* Lines 49 and 118: base_features + self.bias, the 1 x out_channels bias  *)
(* broadcast over the rows.                                                *)
AddBias(base_features, bias) ==
    [i \in 1..Rows(base_features) |->
        [j \in 1..Cols(base_features) |-> base_features[i][j] + bias[1][j]]]

(* The dropout mask drawn under random state seed: element k of the        *)
(* flattened tensor is zeroed when bit k of the seed is set.               *)
Zeroed(seed, k) == (seed \div (2^k)) % 2 = 1

(* dropout called without training=self.training: the mask is drawn in    *)
(* inference mode too.                                                     *)
dropoutAlways(input, p, training, seed) ==
    IF p < 0 \/ p > 100 THEN Raise("ValueError")
    ELSE Ok([i \in 1..Rows(input) |->
                [j \in 1..Cols(input) |->
                    IF p = 100 \/ (p > 0 /\ Zeroed(seed, (i - 1) * Cols(input) + (j - 1)))
                    THEN 0
                    ELSE (input[i][j] * 100) \div (100 - p)]])

(* Lines 51-53 and 109-111: torch.nn.functional.dropout(input, p,          *)
(* training).  It rejects p outside [0, 1] whatever the mode, passes the   *)
(* input through when not training, and otherwise zeroes the masked        *)
(* elements and scales the kept ones by 1/(1-p).                           *)
dropout(input, p, training, seed) ==
    IF p < 0 \/ p > 100 THEN Raise("ValueError")
    ELSE IF ~training THEN Ok(input)
    ELSE Ok([i \in 1..Rows(input) |->
                [j \in 1..Cols(input) |->
                    IF p = 100 \/ (p > 0 /\ Zeroed(seed, (i - 1) * Cols(input) + (j - 1)))
                    THEN 0
                    ELSE (input[i][j] * 100) \div (100 - p)]])

(* Line 55: torch.nn.functional.relu. *)
relu(input) ==
    [i \in 1..Rows(input) |->
        [j \in 1..Cols(input) |-> IF input[i][j] > 0 THEN input[i][j] ELSE 0]]

(* range(self.iterations): one pass too many. *)
LoopCountOffByOne(self) == IF self.iterations > 0 THEN self.iterations ELSE 0

(* Lines 56 and 112: range(self.iterations-1), the number of times the     *)
(* loop body runs.                                                         *)
LoopCount(self) == IF self.iterations - 1 > 0 THEN self.iterations - 1 ELSE 0

(* The loop body adding the hop to base_features (+= for =). *)
PropagateStepAccumulate(adj, base_features) ==
    LET r == spmm(adj.indices, adj.values, Rows(base_features), Rows(base_features),
                  base_features)
    IN  IF r.error # "" THEN r
        ELSE Ok([i \in 1..Rows(base_features) |->
                    [j \in 1..Cols(base_features) |->
                        base_features[i][j] + r.value[i][j]]])

(* The loop body with ReLU applied again after the hop. *)
PropagateStepRelu(adj, base_features) ==
    LET r == spmm(adj.indices, adj.values, Rows(base_features), Rows(base_features),
                  base_features)
    IN  IF r.error # "" THEN r ELSE Ok(relu(r.value))

(* Lines 57-61 and 113-117: one pass of the loop body.                     *)
PropagateStep(adj, base_features) ==
    spmm(adj.indices, adj.values, Rows(base_features), Rows(base_features),
         base_features)

(* Lines 56-61 and 112-117: the loop; hops counts the bodies executed.     *)
RECURSIVE Propagate(_, _, _)
Propagate(adj, base_features, n) ==
    IF n = 0 THEN [error |-> "", value |-> base_features, hops |-> 0]
    ELSE LET before == Propagate(adj, base_features, n - 1)
         IN  IF before.error # "" THEN before
             ELSE LET r == PropagateStep(adj, before.value)
                  IN  [error |-> r.error, value |-> r.value, hops |-> before.hops + 1]

(* What forward() leaves behind: the objects it was handed (Python passes  *)
(* them by reference, so an in-place write would show here), the exception *)
(* it raised or "", the tensor it returned, and the loop bodies it ran.    *)
Outcome(self, adj, feats, error, base_features, hops) ==
    [self |-> self, normalized_adjacency_matrix |-> adj, features |-> feats,
     error |-> error,
     base_features |-> IF error = "" THEN base_features ELSE <<>>,
     hops |-> hops]

(* The sparse steps with the activation applied to the projection before   *)
(* the bias is added.                                                      *)
SparseStepsReluFirst(self, adj, feats, seed) ==
    LET fc == feature_count(feats.indices)
        projected == IF fc.error # "" THEN fc
                     ELSE spmm(feats.indices, feats.values, fc.value[1], fc.value[2],
                               self.weight_matrix)
        dropped == IF projected.error # "" THEN projected
                   ELSE dropout(relu(projected.value),
                                self.dropout_rate, self.training, seed)
    IN  IF dropped.error # "" THEN [error |-> dropped.error, value |-> <<>>, hops |-> 0]
        ELSE Propagate(adj, AddBias(dropped.value, self.bias), LoopCount(self))

(* SparseNGCNLayer.forward, lines 44-61, up to the return; seed is the     *)
(* random state dropout draws its mask from.                               *)
SparseSteps(self, adj, feats, seed) ==
    LET fc == feature_count(feats.indices)
        projected == IF fc.error # "" THEN fc
                     ELSE spmm(feats.indices, feats.values, fc.value[1], fc.value[2],
                               self.weight_matrix)
        dropped == IF projected.error # "" THEN projected
                   ELSE dropout(AddBias(projected.value, self.bias),
                                self.dropout_rate, self.training, seed)
    IN  IF dropped.error # "" THEN [error |-> dropped.error, value |-> <<>>, hops |-> 0]
        ELSE Propagate(adj, relu(dropped.value), LoopCount(self))

(* The sparse forward switching the layer to inference mode as it runs     *)
(* (a self.eval() inside forward).                                         *)
SparseForwardEval(self, adj, feats, seed) ==
    LET looped == SparseSteps(self, adj, feats, seed)
    IN  Outcome([self EXCEPT !.training = FALSE], adj, feats,
                looped.error, looped.value, looped.hops)

(* SparseNGCNLayer.forward, lines 37-62: it assigns only its local         *)
(* base_features and feature_count.                                        *)
SparseForward(self, adj, feats, seed) ==
    LET looped == SparseSteps(self, adj, feats, seed)
    IN  Outcome(self, adj, feats, looped.error, looped.value, looped.hops)

(* The dense forward with the bias added before the propagation loop, as   *)
(* in the sparse layer.                                                    *)
DenseForwardBiasFirst(self, adj, feats, seed) ==
    LET projected == IF Cols(feats) # Rows(self.weight_matrix) THEN Raise("RuntimeError")
                     ELSE Ok(mm(feats, self.weight_matrix))
        dropped == IF projected.error # "" THEN projected
                   ELSE dropout(projected.value, self.dropout_rate, self.training, seed)
        looped == IF dropped.error # "" THEN [error |-> dropped.error, value |-> <<>>, hops |-> 0]
                  ELSE Propagate(adj, AddBias(dropped.value, self.bias), LoopCount(self))
    IN  Outcome(self, adj, feats, looped.error, looped.value, looped.hops)

(* DenseNGCNLayer.forward, lines 108-119; torch.mm raises when the inner   *)
(* dimensions differ.                                                      *)
DenseForward(self, adj, feats, seed) ==
    LET projected == IF Cols(feats) # Rows(self.weight_matrix) THEN Raise("RuntimeError")
                     ELSE Ok(mm(feats, self.weight_matrix))
        dropped == IF projected.error # "" THEN projected
                   ELSE dropout(projected.value, self.dropout_rate, self.training, seed)
        looped == IF dropped.error # "" THEN [error |-> dropped.error, value |-> <<>>, hops |-> 0]
                  ELSE Propagate(adj, dropped.value, LoopCount(self))
    IN  Outcome(self, adj, feats, looped.error,
                IF looped.error = "" THEN AddBias(looped.value, self.bias) ELSE <<>>,
                looped.hops)

forward(self, adj, feats, seed) ==
    IF self.kind = "sparse" THEN SparseForward(self, adj, feats, seed)
    ELSE DenseForward(self, adj, feats, seed)

(* Lines 13-21 and 77-85: __init__ stores its arguments as given;          *)
(* define_parameters and init_parameters (lines 23-35, 87-99) allocate the *)
(* in_channels x out_channels weight and the 1 x out_channels bias and     *)
(* fill them (w and b stand for the Xavier draw).  torch.nn.Module starts  *)
(* in training mode.                                                       *)
NewLayer(kind, in_channels, out_channels, iterations, dropout_rate, w, b) ==
    [kind |-> kind, in_channels |-> in_channels, out_channels |-> out_channels,
     iterations |-> iterations, dropout_rate |-> dropout_rate, training |-> TRUE,
     weight_matrix |-> w, bias |-> b]

----------------------------------------------------------------------------
(* The caller's data. *)

EmptySparse == [indices |-> <<<< >>, << >>>>, values |-> << >>]

Nnz(sp) == Len(sp.indices[1])

(* The dictionary holding the entries <<row, column, value>> of list es. *)
SparseOf(es) ==
    [indices |-> <<[k \in 1..Len(es) |-> es[k][1]], [k \in 1..Len(es) |-> es[k][2]]>>,
     values |-> [k \in 1..Len(es) |-> es[k][3]]]

Before(e, f) ==
    IF e[1] # f[1] THEN e[1] < f[1]
    ELSE IF e[2] # f[2] THEN e[2] < f[2]
    ELSE e[3] < f[3]

(* The sparse matrices of at most MaxNnz stored entries with row indices   *)
(* in R, column indices in C and values in V, their entries listed in      *)
(* increasing (row, column, value) order.                                  *)
SparseMatrices(R, C, V) ==
    {SparseOf(es) : es \in
        {l \in UNION {[1..n -> R \X C \X V] : n \in 0..MaxNnz} :
            \A k \in 1..(Len(l) - 1) : Before(l[k], l[k + 1])}}

Adjacencies == SparseMatrices(0..(MaxNodes - 1), 0..(MaxNodes - 1), AdjVals)

SparseFeatures == SparseMatrices(0..(MaxNodes - 1), 0..(MaxIn - 1), FeatVals)

DenseFeatures ==
    UNION {Matrices(r, c, DenseVals) : r \in 1..MaxNodes, c \in 1..MaxIn}

----------------------------------------------------------------------------
(* The state machine. *)

Built == layer # <<>>
Self == layer[1]
Called == result # <<>>
Res == result[1]
Args == call[1]

Init ==
    /\ layer = <<>>
    /\ normalized_adjacency_matrix = EmptySparse
    /\ features = EmptySparse
    /\ call = <<>>
    /\ result = <<>>

(* SparseNGCNLayer(...) / DenseNGCNLayer(...). *)
Construct ==
    /\ ~Built
    /\ \E kind \in Kinds, ic \in 1..MaxIn, oc \in 1..MaxOut,
          it \in Iterations, p \in DropoutRates :
         \E w \in Matrices(ic, oc, ParamVals), b \in Matrices(1, oc, BiasVals) :
            layer' = <<NewLayer(kind, ic, oc, it, p, w, b)>>
    /\ UNCHANGED <<normalized_adjacency_matrix, features, call, result>>

(* The elements of the matrix dropout is handed in a call on feats (lines  *)
(* 51 and 109), 0 when the call raises before it; the mask has one bit for *)
(* each.                                                                   *)
MaskElements(self, feats) ==
    IF self.kind = "dense"
    THEN IF Cols(feats) = self.in_channels THEN Rows(feats) * self.out_channels ELSE 0
    ELSE LET fc == feature_count(feats.indices)
         IN  IF fc.error # "" \/ fc.value[2] # self.in_channels THEN 0
             ELSE fc.value[1] * self.out_channels

(* The random states that give the masks dropout can draw in a call; one   *)
(* stands for all when dropout draws none.                                 *)
MaskSeeds(self, feats) ==
    IF self.training /\ self.dropout_rate \in 1..99
    THEN 0..(2^MaskElements(self, feats) - 1)
    ELSE {0}

(* layer(normalized_adjacency_matrix, features): the caller hands over its *)
(* adjacency and its features and forward() runs to its end.  The objects  *)
(* are kept as forward() left them.                                        *)
Forward ==
    /\ Built /\ ~Called
    /\ \E adj \in Adjacencies,
          feats \in (IF Self.kind = "sparse" THEN SparseFeatures ELSE DenseFeatures) :
       \E seed \in MaskSeeds(Self, feats) :
         LET out == forward(Self, adj, feats, seed)
         IN  /\ call' = <<[self |-> Self, normalized_adjacency_matrix |-> adj,
                           features |-> feats, seed |-> seed]>>
             /\ layer' = <<out.self>>
             /\ normalized_adjacency_matrix' = out.normalized_adjacency_matrix
             /\ features' = out.features
             /\ result' = <<[error |-> out.error, base_features |-> out.base_features,
                             hops |-> out.hops]>>

(* The caller is done with the call's inputs and output. *)
Release ==
    /\ Called
    /\ normalized_adjacency_matrix' = EmptySparse
    /\ features' = EmptySparse
    /\ call' = <<>>
    /\ result' = <<>>
    /\ UNCHANGED layer

(* optimizer.step() of the external optimizer, between calls: it updates  *)
(* weight_matrix and bias in place, every entry of both in the one call.   *)
OptimizerStep ==
    /\ Built /\ ~Called
    /\ \E w \in Matrices(Self.in_channels, Self.out_channels, ParamVals),
          b \in Matrices(1, Self.out_channels, BiasVals) :
            /\ <<w, b>> # <<Self.weight_matrix, Self.bias>>
            /\ layer' = <<[Self EXCEPT !.weight_matrix = w, !.bias = b]>>
    /\ UNCHANGED <<normalized_adjacency_matrix, features, call, result>>

(* layer.define_parameters() on a built layer, lines 23-28 and 87-92:      *)
(* weight_matrix and bias are replaced by new tensors of the same shapes   *)
(* whose storage is not initialised; each entry holds whatever the memory  *)
(* held, any value an entry can take.                                      *)
DefineParameters ==
    /\ Built /\ ~Called
    /\ \E w \in Matrices(Self.in_channels, Self.out_channels, ParamVals),
          b \in Matrices(1, Self.out_channels, BiasVals) :
            layer' = <<[Self EXCEPT !.weight_matrix = w, !.bias = b]>>
    /\ UNCHANGED <<normalized_adjacency_matrix, features, call, result>>

(* layer.init_parameters() on a built layer, lines 30-35 and 94-99:        *)
(* xavier_uniform_ redraws every entry of weight_matrix and of bias in     *)
(* place, all in the one call.                                             *)
InitParameters ==
    /\ Built /\ ~Called
    /\ \E w \in Matrices(Self.in_channels, Self.out_channels, ParamVals),
          b \in Matrices(1, Self.out_channels, BiasVals) :
            layer' = <<[Self EXCEPT !.weight_matrix = w, !.bias = b]>>
    /\ UNCHANGED <<normalized_adjacency_matrix, features, call, result>>

(* torch.nn.Module.train() / eval(), between calls. *)
SetTraining ==
    /\ Built /\ ~Called
    /\ layer' = <<[Self EXCEPT !.training = ~@]>>
    /\ UNCHANGED <<normalized_adjacency_matrix, features, call, result>>

Next ==
    \/ Construct
    \/ Forward
    \/ Release
    \/ OptimizerStep
    \/ DefineParameters
    \/ InitParameters
    \/ SetTraining

Spec == Init /\ [][Next]_vars

----------------------------------------------------------------------------
(* Dense linear algebra the properties are stated in. *)

Identity(n) == [i \in 1..n |-> [j \in 1..n |-> IF i = j THEN 1 ELSE 0]]

RECURSIVE MatPow(_, _)
MatPow(A, k) == IF k = 0 THEN Identity(Rows(A)) ELSE mm(A, MatPow(A, k - 1))

(* 1 + the largest index of a nonempty index sequence. *)
Extent(s) ==
    LET S == {s[k] : k \in 1..Len(s)}
    IN  1 + CHOOSE m \in S : \A x \in S : x <= m

(* The r x c matrix a sparse dictionary denotes: entry (i, j) is the sum   *)
(* of the values stored at (i, j).                                         *)
ToDense(sp, r, c) ==
    [i \in 1..r |-> [j \in 1..c |->
        SumTo([k \in 1..Nnz(sp) |->
                  IF sp.indices[1][k] = i - 1 /\ sp.indices[2][k] = j - 1
                  THEN sp.values[k] ELSE 0],
              Nnz(sp))]]

(* The n x n identity as a sparse dictionary: the diagonal pairs, values 1. *)
IdentitySparse(n) == SparseOf([k \in 1..n |-> <<k - 1, k - 1, 1>>])

(* The call in hand. *)
CalledKind(kind) == Called /\ Args.self.kind = kind
Succeeded == Called /\ Res.error = ""
DropoutInactive == ~Args.self.training \/ Args.self.dropout_rate = 0
K == Args.self.iterations
W == Args.self.weight_matrix
b == Args.self.bias
A(n) == ToDense(Args.normalized_adjacency_matrix, n, n)

(* The feature matrix of the call as a dense matrix: a sparse one at the   *)
(* extent of its indices.                                                  *)
X ==
    IF Args.self.kind = "dense" THEN Args.features
    ELSE ToDense(Args.features, Extent(Args.features.indices[1]),
                 Extent(Args.features.indices[2]))

----------------------------------------------------------------------------
(* C1: a sparse forward call with iterations K >= 1 and dropout inactive   *)
(* that returns, returns A^(K-1) * ReLU(X*W + b) and has run the loop body *)
(* K-1 times: bias and ReLU are applied once, before the first adjacency   *)
(* multiplication, and at no hop again.                                    *)
C1_SparseForwardFormula ==
    (CalledKind("sparse") /\ Succeeded /\ K >= 1 /\ DropoutInactive) =>
        /\ Res.hops = K - 1
        /\ Res.base_features =
               mm(MatPow(A(Rows(X)), K - 1), relu(AddBias(mm(X, W), b)))

(* A sparse call of three iterations on a two-node graph returned, with a  *)
(* nonzero bias, a negative adjacency weight and a negative projection     *)
(* that ReLU clipped.                                                      *)
C1_Witness ==
    /\ CalledKind("sparse") /\ Succeeded /\ DropoutInactive
    /\ K = 3 /\ Res.hops = 2
    /\ Rows(X) = 2
    /\ b[1][1] = 1
    /\ Nnz(Args.normalized_adjacency_matrix) = 2
    /\ \E k \in 1..2 : Args.normalized_adjacency_matrix.values[k] = -1
    /\ relu(AddBias(mm(X, W), b)) # AddBias(mm(X, W), b)
    /\ Res.base_features # Zeros(2, 1)

(* C2: a dense forward call with iterations K >= 1 and dropout inactive    *)
(* that returns, returns A^(K-1) * (X*W) + b and has run the loop body K-1 *)
(* times: the bias is added once, after the last propagation step, and no  *)
(* ReLU is applied.                                                        *)
C2_DenseForwardFormula ==
    (CalledKind("dense") /\ Succeeded /\ K >= 1 /\ DropoutInactive) =>
        /\ Res.hops = K - 1
        /\ Res.base_features =
               AddBias(mm(MatPow(A(Rows(X)), K - 1), mm(X, W)), b)

(* A dense call of three iterations on a two-node graph returned a matrix  *)
(* with a negative entry, under a nonzero bias and an adjacency that is    *)
(* not the identity.                                                       *)
C2_Witness ==
    /\ CalledKind("dense") /\ Succeeded /\ DropoutInactive
    /\ K = 3 /\ Res.hops = 2
    /\ Rows(X) = 2 /\ Cols(X) = 2
    /\ b[1][1] = 1
    /\ A(2) # Identity(2)
    /\ mm(A(2), mm(X, W)) # mm(X, W)
    /\ \E i \in 1..2 : Res.base_features[i][1] < 0

(* iterations is a positive integer and dropout_rate lies in [0, 1). *)
ValidConfiguration(self) == self.iterations >= 1 /\ self.dropout_rate \in 0..99

(* C3: a layer built with iterations <= 0 or with dropout_rate outside    *)
(* [0, 1) does not exist, and no forward call runs under such a            *)
(* configuration.                                                          *)
C3_InvalidConfigurationRejected ==
    /\ Built => ValidConfiguration(Self)
    /\ Called => ValidConfiguration(Args.self)

(* The number of nodes of the graph a call was handed: the least N for    *)
(* which the adjacency is N x N and the features have N rows.              *)
ExtentOrZero(s) == IF Len(s) = 0 THEN 0 ELSE Extent(s)

Larger(x, y) == IF x > y THEN x ELSE y

NodeCount ==
    Larger(ExtentOrZero(Args.features.indices[1]),
           Larger(ExtentOrZero(Args.normalized_adjacency_matrix.indices[1]),
                  ExtentOrZero(Args.normalized_adjacency_matrix.indices[2])))

(* C4: a sparse forward call that returns, returns a matrix of N rows and  *)
(* out_channels columns, N the number of nodes of the graph: the least N   *)
(* for which the adjacency is N x N and the features have N rows, also     *)
(* when the last rows of the feature matrix hold no stored entry.          *)
C4_SparseOutputShape ==
    (CalledKind("sparse") /\ Succeeded) =>
        /\ Rows(Res.base_features) = NodeCount
        /\ Cols(Res.base_features) = Args.self.out_channels

(* C5: with iterations = 1 the loop body runs zero times in both layers;   *)
(* a call that returns, returns ReLU(dropout(X*W + b)) from the sparse     *)
(* layer and dropout(X*W) + b from the dense one; and the call ends the    *)
(* same way on every other adjacency matrix.                               *)
C5_SingleIteration ==
    (Called /\ K = 1) =>
        /\ Res.hops = 0
        /\ Succeeded =>
              Res.base_features =
                  IF Args.self.kind = "sparse"
                  THEN relu(dropout(AddBias(mm(X, W), b), Args.self.dropout_rate,
                                    Args.self.training, Args.seed).value)
                  ELSE AddBias(dropout(mm(X, W), Args.self.dropout_rate,
                                       Args.self.training, Args.seed).value, b)
        /\ \A adj \in Adjacencies :
              LET other == forward(Args.self, adj, Args.features, Args.seed)
              IN  other.error = Res.error /\ other.base_features = Res.base_features

(* A call with iterations = 1 returned in training mode under a dropout    *)
(* mask that zeroed the second row and kept the first, on an adjacency     *)
(* matrix that a propagation step would have changed the result with.      *)
C5_Witness ==
    /\ Called /\ K = 1 /\ Succeeded
    /\ Args.self.training /\ Args.self.dropout_rate = 50 /\ Args.seed = 2
    /\ Rows(Res.base_features) = 2
    /\ Res.base_features[1][1] # 0
    /\ Res.base_features[2][1]
          # forward([Args.self EXCEPT !.training = FALSE], Args.normalized_adjacency_matrix,
                    Args.features, 0).base_features[2][1]
    /\ PropagateStep(Args.normalized_adjacency_matrix, Res.base_features).value
          # Res.base_features

(* The number of rows of the feature matrix a call was handed, as the     *)
(* sparse layer infers it.                                                 *)
FeatureRows ==
    IF Args.self.kind = "dense" THEN Rows(Args.features)
    ELSE ExtentOrZero(Args.features.indices[1])

(* C6: on the N x N identity adjacency (the diagonal pairs, values 1), N   *)
(* the number of rows of the feature matrix, a call with iterations K >= 1 *)
(* ends as the same call with iterations = 1 does, having run the loop     *)
(* body K-1 times; for the sparse layer with dropout inactive that is      *)
(* ReLU(X*W + b), of N rows and out_channels columns.                      *)
C6_IdentityAdjacency ==
    (Called /\ K >= 1 /\ Args.normalized_adjacency_matrix = IdentitySparse(FeatureRows)) =>
        LET once == forward([Args.self EXCEPT !.iterations = 1],
                            Args.normalized_adjacency_matrix, Args.features, Args.seed)
        IN  /\ Res.error = once.error
            /\ Res.base_features = once.base_features
            /\ Succeeded => Res.hops = K - 1
            /\ (Succeeded /\ Args.self.kind = "sparse" /\ DropoutInactive) =>
                  /\ Res.base_features = relu(AddBias(mm(X, W), b))
                  /\ Rows(Res.base_features) = FeatureRows
                  /\ Cols(Res.base_features) = Args.self.out_channels

(* A call of three iterations on the 2 x 2 identity returned a nonzero     *)
(* matrix after two passes of the loop body.                               *)
C6_Witness ==
    /\ Called /\ Succeeded /\ K = 3 /\ Res.hops = 2
    /\ FeatureRows = 2
    /\ Args.normalized_adjacency_matrix = IdentitySparse(2)
    /\ Res.base_features # Zeros(2, Args.self.out_channels)

(* C7: a forward call, returning or raising, in training or in inference   *)
(* mode, leaves the layer object (weight_matrix, bias, iterations,         *)
(* dropout_rate, training) and the caller's adjacency and features as they *)
(* were handed to it; weight_matrix and bias of a layer change only        *)
(* between calls and only as a step of the optimizer changes them;         *)
(* iterations, dropout_rate and the channel counts of a layer never        *)
(* change, and the training flag changes only in train() / eval().         *)
C7_ForwardFrame ==
    [][/\ (call = <<>> /\ call' # <<>>) =>
              /\ layer' = layer
              /\ normalized_adjacency_matrix' = call'[1].normalized_adjacency_matrix
              /\ features' = call'[1].features
       /\ (Built /\ layer' # <<>>) =>
              /\ <<layer'[1].weight_matrix, layer'[1].bias>> # <<Self.weight_matrix, Self.bias>>
                    => /\ call = <<>> /\ call' = <<>>
                       /\ OptimizerStep
              /\ <<layer'[1].kind, layer'[1].in_channels, layer'[1].out_channels,
                   layer'[1].iterations, layer'[1].dropout_rate>>
                    = <<Self.kind, Self.in_channels, Self.out_channels,
                        Self.iterations, Self.dropout_rate>>
              /\ layer'[1].training # Self.training => SetTraining]_vars

(* A forward call in training mode raised. *)
C7_Witness ==
    /\ Called /\ Args.self.training /\ Res.error # ""
    /\ Args.self.dropout_rate = 50
    /\ Nnz(Args.normalized_adjacency_matrix) > 0

(* The input of a sparse call is malformed. *)
OutOfRange(s, n) == \E k \in 1..Len(s) : s[k] < 0 \/ s[k] >= n

Malformed ==
    \/ Extent(Args.features.indices[2]) # Args.self.in_channels
    \/ OutOfRange(Args.normalized_adjacency_matrix.indices[1], FeatureRows)
    \/ OutOfRange(Args.normalized_adjacency_matrix.indices[2], FeatureRows)
    \/ Len(Args.features.values) # Nnz(Args.features)
    \/ Len(Args.normalized_adjacency_matrix.values) # Nnz(Args.normalized_adjacency_matrix)

(* C8: a sparse forward call on malformed input raises and returns         *)
(* nothing: the column extent of the feature indices differs from          *)
(* in_channels, an adjacency index lies outside [0, N), N the row extent   *)
(* of the features, or indices and values differ in length.                *)
C8_MalformedInputRaises ==
    (CalledKind("sparse") /\ Nnz(Args.features) > 0 /\ Malformed) =>
        Res.error # "" /\ Res.base_features = <<>>

(* No entry of M is negative. *)
NonNegative(M) == \A i \in 1..Rows(M) : \A j \in 1..Cols(M) : M[i][j] >= 0

(* C9: with dropout inactive, the dense layer of the same weight_matrix,   *)
(* bias and iterations, given the dense form of the features of a sparse   *)
(* call that returned and the same adjacency, returns too and runs the     *)
(* loop body as often, K-1 times, on the same projection X*W; the sparse   *)
(* layer returns A^(K-1) * ReLU(X*W + b), the dense one                    *)
(* A^(K-1) * (X*W) + b, and the two agree when b is zero and X*W has no    *)
(* negative entry.                                                         *)
C9_SparseDenseAgreement ==
    (CalledKind("sparse") /\ Succeeded /\ K >= 1 /\ DropoutInactive) =>
        LET twin == DenseForward([Args.self EXCEPT !.kind = "dense"],
                                 Args.normalized_adjacency_matrix, X, Args.seed)
            P == MatPow(A(Rows(X)), K - 1)
        IN  /\ twin.error = ""
            /\ twin.hops = Res.hops /\ Res.hops = K - 1
            /\ Res.base_features = mm(P, relu(AddBias(mm(X, W), b)))
            /\ twin.base_features = AddBias(mm(P, mm(X, W)), b)
            /\ (b = Zeros(1, Cols(b)) /\ NonNegative(mm(X, W))) =>
                  twin.base_features = Res.base_features

(* A sparse call of two or more iterations returned a nonzero matrix under *)
(* a zero bias and a projection without negative entry, on an adjacency    *)
(* that is not the identity; and one returned where ReLU clipped the       *)
(* projection, so that the layers differ.                                  *)
C9_Witness ==
    /\ CalledKind("sparse") /\ Succeeded /\ K >= 2 /\ DropoutInactive
    /\ b = Zeros(1, Cols(b)) /\ NonNegative(mm(X, W))
    /\ Rows(X) = 2
    /\ A(2) # Identity(2)
    /\ Res.base_features # Zeros(2, Cols(b))
    /\ Res.base_features # mm(X, W)

(* C10: in inference mode a call ends the same way under every random      *)
(* state, and under every dropout_rate in [0, 1] as under dropout_rate 0:  *)
(* dropout passes its input through.                                       *)
C10_InferenceDeterministic ==
    (Called /\ ~Args.self.training) =>
        /\ \A seed \in Seeds :
              LET again == forward(Args.self, Args.normalized_adjacency_matrix,
                                   Args.features, seed)
              IN  again.error = Res.error /\ again.base_features = Res.base_features
        /\ Args.self.dropout_rate \in 0..100 =>
              \A p \in DropoutRates \cap 0..100 : \A seed \in Seeds :
                  LET other == forward([Args.self EXCEPT !.dropout_rate = p],
                                       Args.normalized_adjacency_matrix,
                                       Args.features, seed)
                  IN  other.error = Res.error /\ other.base_features = Res.base_features

(* A call in inference mode with dropout_rate 0.5 returned a nonzero       *)
(* matrix that the same call in training mode, with a mask that zeroes,    *)
(* does not return.                                                        *)
C10_Witness ==
    /\ Called /\ ~Args.self.training /\ Args.self.dropout_rate = 50 /\ Succeeded
    /\ forward([Args.self EXCEPT !.training = TRUE], Args.normalized_adjacency_matrix,
               Args.features, 1).base_features # Res.base_features

====
